---- MODULE Spec2Model ----
(***************************************************************************)
(* Model of smarthome-web-portal/DB/models.py: the HelperMixin operations  *)
(* (type_compatible, validate, to_dict, join_to_dict,                      *)
(* join_to_dict_recurse), the DefaultMixin columns and the foreign keys of *)
(* the declared tables.                                                    *)
(*                                                                         *)
(* A Python value is a record [t |-> <type(value).__name__>, v |-> <int>]. *)
(* The payload v is an integer: the number itself for int and long, tenths *)
(* for float and Decimal (30 is 3.0, 35 is 3.5), 0/1 for bool, an index    *)
(* for strings and instants, a heap address for an entity.                 *)
(***************************************************************************)
EXTENDS Integers, Sequences, FiniteSets, TLC

VARIABLES
    tcValue, tcType, tcResult,      \* one call of the static type_compatible
    self, ret, nAssign,             \* one entity, its last call, its assignments
    heap, root, stack, out, nSet,   \* an object graph and a running projection
    rows, dbOp                      \* the tables of the storage layer, the last statement

tcVars == <<tcValue, tcType, tcResult>>
entVars == <<self, ret, nAssign>>
joinVars == <<heap, root, stack, out, nSet>>
dbVars == <<rows, dbOp>>
vars == <<tcVars, entVars, joinVars, dbVars>>

----------------------------------------------------------------------------
(* Python values *)

PyVal(t, v) == [t |-> t, v |-> v]
None == PyVal("NoneType", 0)
True == PyVal("bool", 1)
False == PyVal("bool", 0)

\* Bounds of the enumerated inputs.
MaxInt == 3
LongBig == 70

Ints == {PyVal("int", n) : n \in {0, 1, MaxInt}}
Longs == {PyVal("long", n) : n \in {1, LongBig}}
Floats == {PyVal("float", n) : n \in {30, 35}}
Bools == {True, False}
Strs == {PyVal("str", 1), PyVal("unicode", 1)}
Instants == {PyVal("datetime", 1)}
Decimals == {PyVal("Decimal", 35)}

Scalars == {None} \cup Ints \cup Longs \cup Floats \cup Bools \cup Strs
               \cup Instants \cup Decimals

\* isinstance(value, cls): cls is type(value) or one of its base classes.
Bases(t) ==
    CASE t = "bool" -> {"bool", "int"}
      [] t = "str" -> {"str", "basestring"}
      [] t = "unicode" -> {"unicode", "basestring"}
      [] t = "datetime" -> {"datetime", "date"}
      [] OTHER -> {t}

IsInstance(value, cls) == cls \in Bases(value.t)

IsSubclass(cls, base) == base \in Bases(cls)

----------------------------------------------------------------------------
(* Column types *)

NoPythonType == "absent"

ColumnTypes == {"Integer", "VARCHAR", "Boolean", "Float", "DOUBLE", "DateTime",
                "JSONEncoded"}

\* column_type.python_type of the types the module declares columns with;
\* JSONEncoded (a TypeDecorator) has none.
PythonType(ctype) ==
    CASE ctype = "Integer" -> "int"
      [] ctype = "VARCHAR" -> "str"
      [] ctype = "Boolean" -> "bool"
      [] ctype = "Float" -> "float"
      [] ctype = "DOUBLE" -> "Decimal"
      [] ctype = "DateTime" -> "datetime"
      [] OTHER -> NoPythonType

HasPythonType(ctype) == PythonType(ctype) # NoPythonType

\* type_compatible with the integer rule accepting the exact type int only.
type_compatible_int_only(value, column_type) ==
    IF value = None THEN TRUE
    ELSE IF ~HasPythonType(column_type) THEN TRUE
    ELSE LET column_python_type == PythonType(column_type) IN
        IF IsInstance(value, column_python_type) THEN TRUE
        ELSE IF column_python_type \in {"Decimal"}
            THEN value.t \in {"float", "int"}
        ELSE IF IsSubclass(column_python_type, "basestring")
            THEN IsInstance(value, "basestring")
        ELSE IF column_python_type \in {"float"}
            THEN value.t \in {"float", "int"}
        ELSE IF column_python_type \in {"bool"}
            THEN value.t \in {"bool"}
        ELSE FALSE

\* type_compatible with the boolean rule as lenient as the numeric ones.
type_compatible_lenient_bool(value, column_type) ==
    IF value = None THEN TRUE
    ELSE IF ~HasPythonType(column_type) THEN TRUE
    ELSE LET column_python_type == PythonType(column_type) IN
        IF IsInstance(value, column_python_type) THEN TRUE
        ELSE IF column_python_type \in {"Decimal"}
            THEN value.t \in {"float", "int"}
        ELSE IF IsSubclass(column_python_type, "basestring")
            THEN IsInstance(value, "basestring")
        ELSE IF column_python_type \in {"int", "long"}
            THEN value.t \in {"int", "long"}
        ELSE IF column_python_type \in {"float"}
            THEN value.t \in {"float", "int"}
        ELSE IF column_python_type \in {"bool"}
            THEN value.t \in {"bool", "int"}
        ELSE FALSE

\* type_compatible with the numeric rules testing isinstance, not the exact type.
type_compatible_isinstance(value, column_type) ==
    IF value = None THEN TRUE
    ELSE IF ~HasPythonType(column_type) THEN TRUE
    ELSE LET column_python_type == PythonType(column_type) IN
        IF IsInstance(value, column_python_type) THEN TRUE
        ELSE IF column_python_type \in {"Decimal"}
            THEN IsInstance(value, "float") \/ IsInstance(value, "int")
        ELSE IF IsSubclass(column_python_type, "basestring")
            THEN IsInstance(value, "basestring")
        ELSE IF column_python_type \in {"int", "long"}
            THEN value.t \in {"int", "long"}
        ELSE IF column_python_type \in {"float"}
            THEN IsInstance(value, "float") \/ IsInstance(value, "int")
        ELSE IF column_python_type \in {"bool"}
            THEN value.t \in {"bool"}
        ELSE FALSE

type_compatible(value, column_type) ==
    IF value = None THEN TRUE
    ELSE IF ~HasPythonType(column_type) THEN TRUE
    ELSE LET column_python_type == PythonType(column_type) IN
        IF IsInstance(value, column_python_type) THEN TRUE
        ELSE IF column_python_type \in {"Decimal"}
            THEN value.t \in {"float", "int"}
        ELSE IF IsSubclass(column_python_type, "basestring")
            THEN IsInstance(value, "basestring")
        ELSE IF column_python_type \in {"int", "long"}
            THEN value.t \in {"int", "long"}
        ELSE IF column_python_type \in {"float"}
            THEN value.t \in {"float", "int"}
        ELSE IF column_python_type \in {"bool"}
            THEN value.t \in {"bool"}
        ELSE FALSE

----------------------------------------------------------------------------
(* The declared schema *)

Col(name, type) == [name |-> name, type |-> type]

\* The columns every class but SensorType inherits; they precede the class's
\* own columns in the mapper's column order.
DefaultMixin == <<Col("id", "Integer"), Col("created_at", "DateTime")>>

Sensor(own) ==
    DefaultMixin \o <<Col("uuid", "VARCHAR")>> \o own
        \o <<Col("gateway_id", "Integer")>>

StatusSensors == {"Fan", "Button", "Led", "Buzzer", "Motion", "Gas"}

\* self.__mapper__.columns of each class, in order.
Columns(cls) ==
    CASE cls = "User" ->
            DefaultMixin \o <<Col("username", "VARCHAR"), Col("password", "VARCHAR"),
                              Col("phone", "VARCHAR"), Col("gateway_id", "Integer")>>
      [] cls \in StatusSensors -> Sensor(<<Col("status", "Boolean")>>)
      [] cls = "Temperature" ->
            Sensor(<<Col("temperature", "DOUBLE"), Col("units", "VARCHAR"),
                     Col("range", "VARCHAR")>>)
      [] cls = "Rgbled" ->
            Sensor(<<Col("rgbvalue", "VARCHAR"), Col("range", "VARCHAR")>>)
      [] cls = "Illuminance" -> Sensor(<<Col("illuminance", "Float")>>)
      [] cls = "Solar" ->
            Sensor(<<Col("status", "Boolean")>>)
                \o <<Col("tiltpercentage", "Float"), Col("lcd_first", "VARCHAR"),
                     Col("lcd_second", "VARCHAR")>>
      [] cls \in {"Power", "Energy"} -> Sensor(<<Col("value", "Integer")>>)
      [] cls = "EventLog" ->
            DefaultMixin \o <<Col("type", "VARCHAR"), Col("data", "VARCHAR"),
                              Col("response_code", "Integer")>>
      [] cls = "SmsHistroy" ->
            DefaultMixin \o <<Col("gateway_id", "Integer"), Col("uuid", "VARCHAR")>>
      [] cls = "Gateway" ->
            DefaultMixin \o <<Col("name", "VARCHAR"), Col("url", "VARCHAR"),
                              Col("address", "VARCHAR"), Col("latitude", "VARCHAR"),
                              Col("longitude", "VARCHAR"), Col("status", "Boolean")>>
      [] cls = "Resource" ->
            DefaultMixin \o <<Col("uuid", "VARCHAR"), Col("sensor_type_id", "Integer"),
                              Col("status", "Boolean"), Col("gateway_id", "Integer"),
                              Col("path", "VARCHAR")>>
      [] cls = "SensorType" -> <<Col("id", "Integer"), Col("type", "VARCHAR")>>

ColumnKeys(cls) == {Columns(cls)[i].name : i \in 1..Len(Columns(cls))}

\* Relationship attributes: relation(...) on the class, and the backref the
\* relation of another class puts on it.
Relations(cls) ==
    CASE cls = "User" -> {"gateway"}
      [] cls = "Resource" -> {"sensor_type"}
      [] cls = "Gateway" -> {"user"}
      [] cls = "SensorType" -> {"resource"}
      [] OTHER -> {}

\* The attributes __init__ assigns, with the default of the keyword each
\* comes from (the attribute precedes the keyword's value).
Param(attr, default) == [attr |-> attr, default |-> default]

InitParams(cls) ==
    CASE cls = "User" ->
            {Param("username", None), Param("password", None), Param("gateway_id", None)}
      [] cls \in StatusSensors ->
            {Param("status", None), Param("uuid", None), Param("gateway_id", None)}
      [] cls = "Temperature" ->
            {Param("temperature", None), Param("units", None), Param("range", None),
             Param("uuid", None), Param("gateway_id", None)}
      [] cls = "Rgbled" ->
            {Param("rgbvalue", None), Param("range", None), Param("uuid", None),
             Param("gateway_id", None)}
      [] cls = "Illuminance" ->
            {Param("illuminance", None), Param("uuid", None), Param("gateway_id", None)}
      [] cls = "Solar" ->
            {Param("status", None), Param("uuid", None), Param("gateway_id", None),
             Param("tiltpercentage", None), Param("lcd_first", None),
             Param("lcd_second", None)}
      [] cls \in {"Power", "Energy"} ->
            {Param("value", None), Param("uuid", None), Param("gateway_id", None)}
      [] cls = "EventLog" ->
            {Param("type", None), Param("data", None), Param("response_code", None)}
      [] cls = "SmsHistroy" -> {Param("uuid", None), Param("gateway_id", None)}
      [] cls = "Gateway" ->
            {Param("name", None), Param("url", None), Param("address", None),
             Param("latitude", None), Param("longitude", None), Param("status", False)}
      [] cls = "Resource" ->
            {Param("uuid", None), Param("sensor_type_id", None), Param("path", None),
             Param("status", None)}
      [] cls = "SensorType" -> {Param("type", None)}

InitAttrs(cls) == {p.attr : p \in InitParams(cls)}

----------------------------------------------------------------------------
(* Instances *)

InstanceStateKey == "_sa_instance_state"

\* An instance: its class, its __dict__ (a function on the keys present) and
\* whether the storage layer has inserted it.
\* cls(**args): __init__ assigns every attribute it names, from the keyword
\* given or from its default.
New(cls, args) ==
    [cls |-> cls,
     persisted |-> FALSE,
     dict |-> [k \in InitAttrs(cls) \cup {InstanceStateKey} |->
                 IF k = InstanceStateKey THEN PyVal("InstanceState", 0)
                 ELSE IF k \in DOMAIN args THEN args[k]
                 ELSE (CHOOSE p \in InitParams(cls) : p.attr = k).default]]

NoArgs == <<>>

OneArg(attr, value) == [k \in {attr} |-> value]

\* getattr(obj, key) of a mapped attribute: None while nothing is stored.
GetAttr(obj, key) == IF key \in DOMAIN obj.dict THEN obj.dict[key] ELSE None

\* obj.key = value
SetAttrOf(obj, key, value) ==
    [obj EXCEPT !.dict = [k \in DOMAIN obj.dict \cup {key} |->
                            IF k = key THEN value ELSE obj.dict[k]]]

StartsWithUnderscore(key) == key \in {InstanceStateKey}

----------------------------------------------------------------------------
(* HelperMixin *)

\* util.format_datetime(value): the instant rendered as text (the text of
\* instant n is the string of index -n).
format_datetime(value) == PyVal("str", 0 - value.v)

IsDatetime(value) == IsInstance(value, "datetime")

IsHelperMixin(value) == value.t = "entity"

\* The loop of validate() from column i on: the first incompatible column
\* raises, and `examined` counts the columns whose value was fetched.
RECURSIVE ValidateFrom(_, _, _)
ValidateFrom(obj, columns, i) ==
    IF i > Len(columns)
    THEN [op |-> "validate", raised |-> FALSE, examined |-> Len(columns)]
    ELSE LET column == columns[i]
             value == GetAttr(obj, column.name)
         IN IF ~type_compatible(value, column.type)
            THEN [op |-> "validate", raised |-> TRUE, column |-> column.name,
                  value |-> value, type |-> column.type, examined |-> i]
            ELSE ValidateFrom(obj, columns, i + 1)

\* validate() reporting the last incompatible column instead of the first.
RECURSIVE ValidateLast(_, _, _, _)
ValidateLast(obj, columns, i, found) ==
    IF i > Len(columns) THEN found
    ELSE LET column == columns[i]
             value == GetAttr(obj, column.name)
         IN IF ~type_compatible(value, column.type)
            THEN ValidateLast(obj, columns, i + 1,
                    [op |-> "validate", raised |-> TRUE, column |-> column.name,
                     value |-> value, type |-> column.type, examined |-> i])
            ELSE ValidateLast(obj, columns, i + 1, found)

validate_last(obj) ==
    ValidateLast(obj, Columns(obj.cls), 1,
        [op |-> "validate", raised |-> FALSE, examined |-> Len(Columns(obj.cls))])

validate(obj) == ValidateFrom(obj, Columns(obj.cls), 1)

\* The value stored under a key of to_dict().
ToDictValue(value) == IF IsDatetime(value) THEN format_datetime(value) ELSE value

\* to_dict() keeping a key for a column that holds None.
to_dict_keeping_none(obj) ==
    LET keys == {k \in ColumnKeys(obj.cls) : ~StartsWithUnderscore(k)}
    IN [k \in keys |-> ToDictValue(GetAttr(obj, k))]

to_dict(obj) ==
    LET keys == {k \in ColumnKeys(obj.cls) :
                    ~StartsWithUnderscore(k) /\ GetAttr(obj, k) # None}
    IN [k \in keys |-> ToDictValue(GetAttr(obj, k))]

Dict(d) == [t |-> "dict", v |-> d]

\* join_to_dict() expanding a related entity with join_to_dict of its own.
join_to_dict_nesting(h, a) ==
    LET Inner(b) ==
            LET obj == h[b]
                keys == {k \in DOMAIN obj.dict :
                            ~StartsWithUnderscore(k) /\ GetAttr(obj, k) # None}
            IN [k \in keys |->
                  LET value == ToDictValue(GetAttr(obj, k))
                  IN IF IsHelperMixin(value)
                     THEN Dict(to_dict(h[value.v])) ELSE value]
        obj == h[a]
        keys == {k \in DOMAIN obj.dict :
                    ~StartsWithUnderscore(k) /\ GetAttr(obj, k) # None}
    IN [k \in keys |->
          LET value == ToDictValue(GetAttr(obj, k))
          IN IF IsHelperMixin(value) THEN Dict(Inner(value.v)) ELSE value]

\* The non-private keys of obj.__dict__.
Joined(obj) == {k \in DOMAIN obj.dict : ~StartsWithUnderscore(k)}

\* join_to_dict() of the object at address a of heap h.
join_to_dict(h, a) ==
    LET obj == h[a]
        keys == {k \in Joined(obj) : GetAttr(obj, k) # None}
    IN [k \in keys |->
          LET value == ToDictValue(GetAttr(obj, k))
          IN IF IsHelperMixin(value) THEN Dict(to_dict(h[value.v])) ELSE value]

----------------------------------------------------------------------------
(* Specification SpecTC: one call of type_compatible on enumerated inputs *)

Pending == [called |-> FALSE, result |-> FALSE]

Returned(b) == [called |-> TRUE, result |-> b]

IdleEnt == [self |-> New("SensorType", NoArgs), ret |-> [op |-> "idle"]]

EntIdle == self = IdleEnt.self /\ ret = IdleEnt.ret /\ nAssign = 0

JoinIdle == heap = <<>> /\ root = 0 /\ stack = <<>> /\ out = [op |-> "idle"] /\ nSet = 0

DbIdle == rows = {} /\ dbOp = [op |-> "none"]

TcIdle == tcValue = None /\ tcType = "Integer" /\ tcResult = Pending

InitTC ==
    /\ tcValue \in Scalars
    /\ tcType \in ColumnTypes
    /\ tcResult = Pending
    /\ EntIdle /\ JoinIdle /\ DbIdle

TypeCompatibleCall ==
    /\ tcResult = Pending
    /\ tcResult' = Returned(type_compatible(tcValue, tcType))
    /\ UNCHANGED <<tcValue, tcType, entVars, joinVars, dbVars>>

NextTC == TypeCompatibleCall

SpecTC == InitTC /\ [][NextTC]_vars

----------------------------------------------------------------------------
(* Specification Spec: the life of one entity *)

\* Bounds of the enumerated inputs.
MaxAssign == 2
MaxClock == 2
MaxPk == 1

EntityClasses == {"Fan", "Power", "Temperature", "Illuminance", "SensorType"}

EntityValues == {None, PyVal("int", 0), PyVal("int", 1), PyVal("long", 1),
                 PyVal("float", 30), True, PyVal("str", 1), PyVal("datetime", 1)}

\* self = cls(attr=value): a keyword argument counts as a supplied value.
Construct(cls, attr, value) ==
    /\ self = New(cls, OneArg(attr, value))
    /\ ret = [op |-> "construct"]
    /\ nAssign = IF value = None THEN 0 ELSE 1

Init ==
    /\ \E cls \in EntityClasses : \E attr \in InitAttrs(cls) :
          \E value \in EntityValues : Construct(cls, attr, value)
    /\ TcIdle /\ JoinIdle /\ DbIdle

\* self.key = value
SetAttr(key, value) ==
    /\ nAssign < MaxAssign
    /\ self' = SetAttrOf(self, key, value)
    /\ ret' = [op |-> "setattr", key |-> key]
    /\ nAssign' = nAssign + 1
    /\ UNCHANGED <<tcVars, joinVars, dbVars>>

\* HelperMixin.type_compatible(self.<column>, <column>.type)
TypeCompatible(i) ==
    LET column == Columns(self.cls)[i]
        value == GetAttr(self, column.name)
    IN /\ ret' = [op |-> "type_compatible", value |-> value, type |-> column.type,
                  result |-> type_compatible(value, column.type)]
       /\ UNCHANGED <<self, nAssign, tcVars, joinVars, dbVars>>

Validate ==
    /\ ret' = validate(self)
    /\ UNCHANGED <<self, nAssign, tcVars, joinVars, dbVars>>

ToDict ==
    /\ ret' = [op |-> "to_dict", dict |-> to_dict(self)]
    /\ UNCHANGED <<self, nAssign, tcVars, joinVars, dbVars>>

\* An insert that stamps created_at whatever the record holds.
InsertedStamping(obj, pk, now) ==
    LET withId == SetAttrOf(obj, "id", PyVal("int", pk))
        withBoth == IF "created_at" \in ColumnKeys(obj.cls)
                    THEN SetAttrOf(withId, "created_at", PyVal("datetime", now))
                    ELSE withId
    IN [withBoth EXCEPT !.persisted = TRUE]

\* The storage layer inserts the record: the primary key it assigns and the
\* column default util.get_utc_now fill the columns that hold nothing.
Inserted(obj, pk, now) ==
    LET withId == IF GetAttr(obj, "id") = None
                  THEN SetAttrOf(obj, "id", PyVal("int", pk)) ELSE obj
        withBoth == IF "created_at" \in ColumnKeys(obj.cls)
                       /\ GetAttr(obj, "created_at") = None
                    THEN SetAttrOf(withId, "created_at", PyVal("datetime", now))
                    ELSE withId
    IN [withBoth EXCEPT !.persisted = TRUE]

Persist(pk, now) ==
    /\ ~self.persisted
    /\ self' = Inserted(self, pk, now)
    /\ ret' = [op |-> "persist", pk |-> pk, now |-> now]
    /\ UNCHANGED <<nAssign, tcVars, joinVars, dbVars>>

Next ==
    \/ \E key \in ColumnKeys(self.cls) : \E value \in EntityValues : SetAttr(key, value)
    \/ \E i \in 1..Len(Columns(self.cls)) : TypeCompatible(i)
    \/ Validate
    \/ ToDict

Spec == Init /\ [][Next]_vars

----------------------------------------------------------------------------
(* Specification SpecLife: construction, assignment, calls and the insert *)

LifeClasses == {"Fan", "Gateway", "SensorType"}

LifeValues == {None, PyVal("int", 0), PyVal("datetime", 1)}

InitLife ==
    /\ \E cls \in LifeClasses : \E attr \in InitAttrs(cls) :
          \E value \in LifeValues : Construct(cls, attr, value)
    /\ TcIdle /\ JoinIdle /\ DbIdle

NextLife ==
    \/ \E key \in ColumnKeys(self.cls) : \E value \in LifeValues : SetAttr(key, value)
    \/ Validate
    \/ ToDict
    \/ \E pk \in 1..MaxPk : \E now \in 1..MaxClock : Persist(pk, now)

SpecLife == InitLife /\ [][NextLife]_vars

----------------------------------------------------------------------------
(* Properties of validate and type_compatible, under Spec and SpecTC *)

\* The positions of the columns of obj holding an incompatible value.
Incompatible(obj) ==
    {i \in 1..Len(Columns(obj.cls)) :
        ~type_compatible(GetAttr(obj, Columns(obj.cls)[i].name),
                         Columns(obj.cls)[i].type)}

First(S) == CHOOSE i \in S : \A j \in S : i <= j

AllNone(obj) == \A k \in ColumnKeys(obj.cls) : GetAttr(obj, k) = None

\* C1: validate() raises InvalidParameter exactly when some declared column
\* holds a value type_compatible rejects; the error carries the name, value
\* and type of the first such column in declaration order and no later
\* column is examined; an entity whose fields are all None never raises.
C1_ValidateFirstIncompatible ==
    ret.op = "validate" =>
        LET bad == Incompatible(self)
            cols == Columns(self.cls)
        IN /\ ret.raised <=> bad # {}
           /\ ret.raised =>
                /\ ret.column = cols[First(bad)].name
                /\ ret.value = GetAttr(self, cols[First(bad)].name)
                /\ ret.type = cols[First(bad)].type
                /\ ret.examined = First(bad)
           /\ ~ret.raised => ret.examined = Len(cols)
           /\ AllNone(self) => ~ret.raised

C1_Witness ==
    /\ ret.op = "validate"
    /\ ret.raised
    /\ Cardinality(Incompatible(self)) >= 2
    /\ ret.examined < Len(Columns(self.cls))

BooleanColumns(cls) ==
    {i \in 1..Len(Columns(cls)) : Columns(cls)[i].type = "Boolean"}

IntegerColumns(cls) ==
    {i \in 1..Len(Columns(cls)) : Columns(cls)[i].type = "Integer"}

\* C2: for a Boolean column type_compatible accepts None and bool values only
\* (int 0 and 1, long, float and string values are rejected); validate() on
\* an entity whose Boolean column holds the integer 1 raises, and names that
\* column when no column declared before it holds an incompatible value.
C2_BooleanStrict ==
    /\ (ret.op = "type_compatible" /\ ret.type = "Boolean") =>
            (ret.result <=> ret.value.t \in {"NoneType", "bool"})
    /\ ret.op = "validate" =>
            \A i \in BooleanColumns(self.cls) :
                LET name == Columns(self.cls)[i].name
                IN GetAttr(self, name) = PyVal("int", 1) =>
                    /\ ret.raised
                    /\ (\A j \in Incompatible(self) : j >= i) => ret.column = name

C2_Witness ==
    /\ self.cls = "Fan"
    /\ GetAttr(self, "status") = PyVal("int", 1)
    /\ ret.op = "validate"
    /\ ret.raised
    /\ ret.column = "status"

\* C3: for a Float column and for a DOUBLE (decimal) column type_compatible
\* accepts every int, long and float value.
C3_FloatAcceptsEveryInteger ==
    (tcResult.called /\ tcType \in {"Float", "DOUBLE"}
        /\ tcValue.t \in {"int", "long", "float"}) => tcResult.result

\* C4: for an Integer column type_compatible accepts every int and long
\* value and rejects every float value, 3.0 included.
C4_IntegerAnyWidth ==
    (tcResult.called /\ tcType = "Integer") =>
        /\ tcValue.t \in {"int", "long"} => tcResult.result
        /\ tcValue.t = "float" => ~tcResult.result

C4_Witness ==
    /\ tcResult.called
    /\ tcType = "Integer"
    /\ tcValue = PyVal("long", LongBig)
    /\ tcResult.result

\* C10: a bool value is accepted for an Integer column and rejected for a
\* Float or DOUBLE column, and an int value is rejected for a Boolean column;
\* validate() never names an Integer column holding True, and does not raise
\* when such a column is the only one holding a value other than None.
C10_BoolIntAsymmetry ==
    /\ ret.op = "type_compatible" =>
        /\ (ret.value.t = "bool" /\ ret.type = "Integer") => ret.result
        /\ (ret.value.t = "bool" /\ ret.type \in {"Float", "DOUBLE"}) => ~ret.result
        /\ (ret.value.t = "int" /\ ret.type = "Boolean") => ~ret.result
    /\ ret.op = "validate" =>
        \A i \in IntegerColumns(self.cls) :
            LET name == Columns(self.cls)[i].name
            IN GetAttr(self, name) = True =>
                /\ ret.raised => ret.column # name
                /\ (\A k \in ColumnKeys(self.cls) \ {name} : GetAttr(self, k) = None)
                        => ~ret.raised

C10_Witness ==
    /\ self.cls = "Power"
    /\ GetAttr(self, "value") = True
    /\ GetAttr(self, "gateway_id") = True
    /\ ret.op = "validate"
    /\ ~ret.raised

----------------------------------------------------------------------------
(* Properties of the default columns, under SpecLife *)

CreatedAt(obj) == GetAttr(obj, "created_at")

Id(obj) == GetAttr(obj, "id")

HasCreatedAt(obj) == "created_at" \in ColumnKeys(obj.cls)

Assigns(r, key) == r.op = "setattr" /\ r.key = key

\* C9 as stated: from construction on, an entity with a created_at column
\* that was given no explicit value holds the instant of its construction.
C9_CreatedAtSetAtConstruction ==
    (HasCreatedAt(self) /\ ret.op = "construct") => CreatedAt(self) # None

\* C9, amended: construction leaves created_at and id unassigned; the insert
\* by the storage layer assigns id, and sets created_at to the then-current
\* UTC instant when the entity holds none; apart from an explicit assignment
\* to the attribute, no step changes created_at once it is set, and no step
\* but the insert changes id.
C9_CreatedAtSetOnInsert ==
    [][ /\ ret.op = "construct" => (CreatedAt(self) = None /\ Id(self) = None)
        /\ ret'.op = "persist" =>
            /\ Id(self) = None => Id(self') = PyVal("int", ret'.pk)
            /\ (HasCreatedAt(self) /\ CreatedAt(self) = None)
                    => CreatedAt(self') = PyVal("datetime", ret'.now)
        /\ (CreatedAt(self) # None /\ ~Assigns(ret', "created_at"))
                => CreatedAt(self') = CreatedAt(self)
        /\ (ret'.op # "persist" /\ ~Assigns(ret', "created_at"))
                => CreatedAt(self') = CreatedAt(self)
        /\ (ret'.op # "persist" /\ ~Assigns(ret', "id")) => Id(self') = Id(self)
      ]_vars

C9_Witness ==
    /\ self.persisted
    /\ nAssign = 0
    /\ HasCreatedAt(self)
    /\ CreatedAt(self) = PyVal("datetime", MaxClock)
    /\ Id(self) # None
    /\ ret.op = "to_dict"

----------------------------------------------------------------------------
(* Specification SpecJoin: an object graph and its projections *)

\* Bounds: the objects of the heap and the attribute assignments made.
NumObjs == 3
MaxSet == 2

\* The recursion of join_to_dict_recurse is followed this deep; a graph
\* without a cycle needs at most one frame per object.
MaxDepth == NumObjs + 1

Addrs == 1..NumObjs

JoinClasses == <<"User", "Gateway", "Resource", "SensorType">>

ClassAt(a) == JoinClasses[((a - 1) % Len(JoinClasses)) + 1]

Ref(a) == PyVal("entity", a)

List(S) == PyVal("list", S)

\* relation(target, backref=...): the class a relationship attribute refers
\* to and the attribute of that class holding the referring objects.
RelationTo(cls, key) ==
    CASE cls = "User" /\ key = "gateway" -> [cls |-> "Gateway", backref |-> "user"]
      [] cls = "Resource" /\ key = "sensor_type" ->
            [cls |-> "SensorType", backref |-> "resource"]
      [] OTHER -> [cls |-> "", backref |-> ""]

IsRelation(cls, key) == RelationTo(cls, key).cls # ""

\* The inputs of an assignment: the attributes assigned and the values given.
JoinKeys(cls) ==
    {k \in Relations(cls) : IsRelation(cls, k)}
        \cup (ColumnKeys(cls) \cap {"id", "created_at"})

\* An id is given an integer or, to link objects beyond the declared
\* relations, an entity; created_at an instant; a relation an instance of
\* its target class.
JoinValues(cls, key) ==
    IF IsRelation(cls, key)
    THEN {Ref(b) : b \in {b \in Addrs : ClassAt(b) = RelationTo(cls, key).cls}}
    ELSE IF key = "created_at" THEN {PyVal("datetime", 1)}
    ELSE {PyVal("int", 1)} \cup {Ref(b) : b \in Addrs}

Members(value) == IF value.t = "list" THEN value.v ELSE {}

\* h[a].key = value; assigning a relationship also files a in the backref
\* collection of the new target and takes it out of the old target's.
Assigned(h, a, key, value) ==
    LET rel == RelationTo(h[a].cls, key)
        old == GetAttr(h[a], key)
        set == [h EXCEPT ![a] = SetAttrOf(h[a], key, value)]
        dropped ==
            IF IsRelation(h[a].cls, key) /\ IsHelperMixin(old)
            THEN [set EXCEPT ![old.v] =
                    SetAttrOf(set[old.v], rel.backref,
                        List(Members(GetAttr(set[old.v], rel.backref)) \ {a}))]
            ELSE set
    IN IF IsRelation(h[a].cls, key) /\ IsHelperMixin(value)
       THEN [dropped EXCEPT ![value.v] =
                SetAttrOf(dropped[value.v], rel.backref,
                    List(Members(GetAttr(dropped[value.v], rel.backref)) \cup {a}))]
       ELSE dropped

Idle == [op |-> "idle"]

Put(d, key, value) == [k \in DOMAIN d \cup {key} |-> IF k = key THEN value ELSE d[k]]

EmptyDict == <<>>

\* The frame of one call of join_to_dict_recurse: the object, the keys of
\* `joined` still to visit, dict_info so far, and the key whose value the
\* call in the frame above is expanding.
Frame(h, a) == [obj |-> a, todo |-> Joined(h[a]), dict_info |-> EmptyDict, at |-> ""]

InitJoin ==
    /\ heap = [a \in Addrs |-> New(ClassAt(a), NoArgs)]
    /\ root = 0
    /\ stack = <<>>
    /\ out = Idle
    /\ nSet = 0
    /\ TcIdle /\ EntIdle /\ DbIdle

AssignAttr(a, key, value) ==
    /\ stack = <<>>
    /\ nSet < MaxSet
    /\ heap' = Assigned(heap, a, key, value)
    /\ nSet' = nSet + 1
    /\ out' = Idle
    /\ UNCHANGED <<root, stack, tcVars, entVars, dbVars>>

ToDictCall(a) ==
    /\ stack = <<>>
    /\ out' = [op |-> "to_dict", obj |-> a, dict |-> to_dict(heap[a])]
    /\ UNCHANGED <<heap, root, stack, nSet, tcVars, entVars, dbVars>>

JoinToDictCall(a) ==
    /\ stack = <<>>
    /\ out' = [op |-> "join_to_dict", obj |-> a, dict |-> join_to_dict(heap, a)]
    /\ UNCHANGED <<heap, root, stack, nSet, tcVars, entVars, dbVars>>

RecurseCall(a) ==
    /\ stack = <<>>
    /\ root' = a
    /\ stack' = <<Frame(heap, a)>>
    /\ out' = [op |-> "running", obj |-> a]
    /\ UNCHANGED <<heap, nSet, tcVars, entVars, dbVars>>

Top == stack[Len(stack)]

Below == SubSeq(stack, 1, Len(stack) - 1)

\* The loop of join_to_dict_recurse ends: the call returns dict_info, to the
\* caller or into the dict_info of the frame below.
RecurseReturn ==
    /\ Top.todo = {}
    /\ IF Len(stack) = 1
       THEN /\ stack' = <<>>
            /\ out' = [op |-> "join_to_dict_recurse", obj |-> root,
                       dict |-> Top.dict_info]
       ELSE LET caller == stack[Len(stack) - 1]
            IN /\ stack' = SubSeq(stack, 1, Len(stack) - 2) \o
                    <<[caller EXCEPT !.dict_info =
                            Put(caller.dict_info, caller.at, Dict(Top.dict_info))]>>
               /\ out' = out

\* One pass of the loop that skips an entity already being expanded.
RecurseVisitOnce ==
    /\ Top.todo # {}
    /\ LET key == CHOOSE k \in Top.todo : TRUE
           value == GetAttr(heap[Top.obj], key)
           rest == [Top EXCEPT !.todo = @ \ {key}]
           onStack == {stack[i].obj : i \in 1..Len(stack)}
       IN /\ IF value = None \/ (IsHelperMixin(value) /\ value.v \in onStack)
             THEN stack' = Below \o <<rest>>
             ELSE IF IsHelperMixin(value)
             THEN /\ Len(stack) < MaxDepth
                  /\ stack' = Below \o <<[rest EXCEPT !.at = key]>>
                                \o <<Frame(heap, value.v)>>
             ELSE stack' = Below \o
                    <<[rest EXCEPT !.dict_info = Put(@, key, ToDictValue(value))]>>
          /\ out' = out

\* One pass of the loop of join_to_dict_recurse over the keys of `joined`.
RecurseVisit ==
    /\ Top.todo # {}
    /\ LET key == CHOOSE k \in Top.todo : TRUE
           value == GetAttr(heap[Top.obj], key)
           rest == [Top EXCEPT !.todo = @ \ {key}]
       IN /\ IF value = None
             THEN stack' = Below \o <<rest>>
             ELSE IF IsHelperMixin(value)
             THEN /\ Len(stack) < MaxDepth
                  /\ stack' = Below \o <<[rest EXCEPT !.at = key]>>
                                \o <<Frame(heap, value.v)>>
             ELSE stack' = Below \o
                    <<[rest EXCEPT !.dict_info = Put(@, key, ToDictValue(value))]>>
          /\ out' = out

RecurseStep ==
    /\ stack # <<>>
    /\ RecurseVisit \/ RecurseReturn
    /\ UNCHANGED <<heap, root, nSet, tcVars, entVars, dbVars>>

NextJoin ==
    \/ \E a \in Addrs : \E key \in JoinKeys(heap[a].cls) :
            \E value \in JoinValues(heap[a].cls, key) : AssignAttr(a, key, value)
    \/ \E a \in Addrs : ToDictCall(a)
    \/ \E a \in Addrs : JoinToDictCall(a)
    \/ \E a \in Addrs : RecurseCall(a)
    \/ RecurseStep

SpecJoin == InitJoin /\ [][NextJoin]_vars

\* join_to_dict_recurse runs to its end once called: nothing suspends it.
SpecJoinFair == SpecJoin /\ WF_vars(RecurseStep)

----------------------------------------------------------------------------
(* Properties of the projections, under SpecJoin and SpecJoinFair *)

\* The objects the non-private attributes of h[a] hold.
Related(h, a) ==
    {GetAttr(h[a], k).v : k \in {k \in Joined(h[a]) : IsHelperMixin(GetAttr(h[a], k))}}

RECURSIVE ReachableIn(_, _, _)
ReachableIn(h, S, n) ==
    IF n = 0 THEN S
    ELSE ReachableIn(h, S \cup UNION {Related(h, b) : b \in S}, n - 1)

\* The objects reached from S by one or more attributes.
Beyond(h, S) == ReachableIn(h, UNION {Related(h, b) : b \in S}, NumObjs)

CyclicFrom(h, a) == \E b \in ReachableIn(h, {a}, NumObjs) : b \in Beyond(h, {b})

Max(S) == CHOOSE i \in S : \A j \in S : j <= i

\* The longest chain of attributes from a, in a graph without a cycle.
RECURSIVE GraphDepth(_, _)
GraphDepth(h, a) ==
    IF Related(h, a) = {} THEN 0
    ELSE 1 + Max({GraphDepth(h, b) : b \in Related(h, a)})

Nested(d) == {k \in DOMAIN d : d[k].t = "dict"}

\* How deep mappings nest in the mapping d.
RECURSIVE DictDepth(_)
DictDepth(d) ==
    IF Nested(d) = {} THEN 0
    ELSE 1 + Max({DictDepth(d[k].v) : k \in Nested(d)})

\* C5: the keys of to_dict() are exactly the declared columns that are not
\* private and hold a value other than None; no key maps to None, a value
\* that is no datetime is the attribute's value itself, and no value is a
\* mapping: a related entity is never expanded.
C5_ToDictKeys ==
    out.op = "to_dict" =>
        LET obj == heap[out.obj]
        IN /\ DOMAIN out.dict =
                {k \in ColumnKeys(obj.cls) :
                    k # InstanceStateKey /\ GetAttr(obj, k) # None}
           /\ DOMAIN out.dict \cap Relations(obj.cls) = {}
           /\ \A k \in DOMAIN out.dict :
                /\ out.dict[k] # None
                /\ out.dict[k].t # "dict"
                /\ GetAttr(obj, k).t # "datetime" => out.dict[k] = GetAttr(obj, k)

C5_Witness ==
    /\ out.op = "to_dict"
    /\ heap[out.obj].cls = "User"
    /\ IsHelperMixin(GetAttr(heap[out.obj], "gateway"))
    /\ DOMAIN out.dict = {"id"}
    /\ GetAttr(heap[out.obj], "username") = None

\* C6: join_to_dict() replaces every non-private attribute holding an entity
\* by the to_dict() of that entity, and the mapping it puts there holds no
\* mapping, whatever the related entity's own attributes hold: the result
\* nests one level at most.
C6_JoinOneLevel ==
    out.op = "join_to_dict" =>
        LET obj == heap[out.obj]
        IN /\ \A k \in Joined(obj) :
                IsHelperMixin(GetAttr(obj, k)) =>
                    /\ k \in DOMAIN out.dict
                    /\ out.dict[k] = Dict(to_dict(heap[GetAttr(obj, k).v]))
                    /\ Nested(out.dict[k].v) = {}
           /\ DictDepth(out.dict) = IF Related(heap, out.obj) = {} THEN 0 ELSE 1

C6_Witness ==
    /\ out.op = "join_to_dict"
    /\ heap[out.obj].cls = "User"
    /\ "gateway" \in Nested(out.dict)
    /\ \E k \in Joined(heap[GetAttr(heap[out.obj], "gateway").v]) :
            IsHelperMixin(GetAttr(heap[GetAttr(heap[out.obj], "gateway").v], k))
    /\ ~CyclicFrom(heap, out.obj)
    /\ GraphDepth(heap, out.obj) = 2

RecurseRunning == out.op = "running"

RecurseReturned == out.op = "join_to_dict_recurse"

C7_ChainReturned ==
    /\ RecurseReturned
    /\ GraphDepth(heap, out.obj) = 2
    /\ DictDepth(out.dict) = 2

----------------------------------------------------------------------------
(* Specification SpecDB: the tables and their foreign keys *)

\* Bounds: the primary keys of a table, the rows stored at once, the uuids.
MaxId == 2
MaxRows == 4
MaxUuid == 1

SensorClasses == StatusSensors \cup {"Temperature", "Rgbled", "Illuminance", "Solar",
                                     "Power", "Energy", "SmsHistroy"}

DbClasses == SensorClasses \cup {"User", "Gateway", "Resource", "SensorType", "EventLog"}

ForeignKey(cls, column, ref, refcolumn, ondelete, onupdate) ==
    [cls |-> cls, column |-> column, ref |-> ref, refcolumn |-> refcolumn,
     ondelete |-> ondelete, onupdate |-> onupdate]

\* The declared foreign keys with Fan.gateway_id lacking its ondelete.
ForeignKeysFanNoAction ==
    {ForeignKey(cls, "uuid", "Resource", "uuid", "CASCADE", "CASCADE") :
        cls \in SensorClasses}
    \cup {ForeignKey(cls, "gateway_id", "Gateway", "id", "CASCADE", "CASCADE") :
        cls \in (SensorClasses \ {"Fan"}) \cup {"User", "Resource"}}
    \cup {ForeignKey("Fan", "gateway_id", "Gateway", "id", "NO ACTION", "CASCADE")}
    \cup {ForeignKey("Resource", "sensor_type_id", "SensorType", "id",
                     "CASCADE", "CASCADE")}

\* Every ForeignKey(...) a Column of the module carries.
ForeignKeys ==
    {ForeignKey(cls, "uuid", "Resource", "uuid", "CASCADE", "CASCADE") :
        cls \in SensorClasses}
    \cup {ForeignKey(cls, "gateway_id", "Gateway", "id", "CASCADE", "CASCADE") :
        cls \in SensorClasses \cup {"User", "Resource"}}
    \cup {ForeignKey("Resource", "sensor_type_id", "SensorType", "id",
                     "CASCADE", "CASCADE")}

ForeignKeysByClass == [cls \in DbClasses |-> {fk \in ForeignKeys : fk.cls = cls}]

ForeignKeysOf(cls) == ForeignKeysByClass[cls]

\* The foreign keys of the tables that hold a row of R.
KeysInto(R) == UNION {ForeignKeysOf(cls) : cls \in {c.cls : c \in R}}

\* A row: the primary key and the key columns of its table (0 where the
\* table has no such column).
Row(cls, id, uuid, gateway_id, sensor_type_id) ==
    [cls |-> cls, id |-> id, uuid |-> uuid, gateway_id |-> gateway_id,
     sensor_type_id |-> sensor_type_id]

ColumnKeysByClass == [cls \in DbClasses |-> ColumnKeys(cls)]

HasColumn(cls, column) == column \in ColumnKeysByClass[cls]

\* child refers to parent through fk.
RefersTo(child, parent, fk) ==
    /\ child.cls = fk.cls
    /\ parent.cls = fk.ref
    /\ child[fk.column] = parent[fk.refcolumn]

\* The foreign keys of a row all find a parent row in R.
ForeignKeysHold(row, R) ==
    \A fk \in ForeignKeysOf(row.cls) : \E parent \in R : RefersTo(row, parent, fk)

\* The tables rows are inserted into: the parents, User, and one of the
\* sensor tables, which all carry the same two foreign keys.
InsertClasses == {"Gateway", "SensorType", "Resource", "User", "Fan"}

\* The rows of R referring to row through a cascading foreign key.
Children(R, row) ==
    {c \in R : \E fk \in ForeignKeysOf(c.cls) :
                    fk.ondelete = "CASCADE" /\ RefersTo(c, row, fk)}

NoOp == [op |-> "none"]

InitDB ==
    /\ rows = {}
    /\ dbOp = NoOp
    /\ TcIdle /\ EntIdle /\ JoinIdle

\* INSERT: refused when the primary key is taken or a foreign key finds no
\* parent.
InsertRow(cls, id, uuid, gateway_id, sensor_type_id) ==
    LET row == Row(cls, id,
                   IF HasColumn(cls, "uuid") THEN uuid ELSE 0,
                   IF HasColumn(cls, "gateway_id") THEN gateway_id ELSE 0,
                   IF HasColumn(cls, "sensor_type_id") THEN sensor_type_id ELSE 0)
    IN /\ Cardinality(rows) < MaxRows
       /\ ~\E r \in rows : r.cls = cls /\ r.id = id
       /\ ForeignKeysHold(row, rows)
       /\ rows' = rows \cup {row}
       /\ dbOp' = [op |-> "insert"]
       /\ UNCHANGED <<tcVars, entVars, joinVars>>

\* The rows of R that lose their last parent through fk when the rows of
\* `gone` go.
Orphaned(R, gone, fk) ==
    {c \in R \ gone :
        /\ \E p \in gone : RefersTo(c, p, fk)
        /\ ~\E p \in R \ gone : RefersTo(c, p, fk)}

CascadingKeys == {fk \in ForeignKeys : fk.ondelete = "CASCADE"}

\* The rows a delete of `gone` takes along: ON DELETE CASCADE, repeated.
RECURSIVE Cascade(_, _)
Cascade(R, gone) ==
    LET more == UNION {Orphaned(R, gone, fk) : fk \in KeysInto(R) \cap CascadingKeys}
    IN IF more = {} THEN gone ELSE Cascade(R, gone \cup more)

\* A foreign key without CASCADE refuses the delete of a referenced row.
Refused(R, gone) ==
    \E fk \in KeysInto(R) \ CascadingKeys : Orphaned(R, gone, fk) # {}

\* DELETE of one row. A child that matches another remaining parent (a
\* resource of the same uuid) goes with it or stays.
DeleteRow(row, also) ==
    LET gone == Cascade(rows, {row} \cup also)
    IN /\ row \in rows
       /\ also \subseteq Children(rows, row)
       /\ ~Refused(rows, gone)
       /\ rows' = rows \ gone
       /\ dbOp' = [op |-> "delete", cls |-> row.cls, id |-> row.id,
                   took |-> {c.cls : c \in gone \ {row}}]
       /\ UNCHANGED <<tcVars, entVars, joinVars>>

\* UPDATE of a referenced key of one row: ON UPDATE CASCADE rewrites the
\* referring column of the children that would lose their parent.
UpdateKey(row, column, value) ==
    LET moved == [row EXCEPT ![column] = value]
        keys == {fk \in ForeignKeys : fk.ref = row.cls /\ fk.refcolumn = column}
        held == keys \cap KeysInto(rows)
        follows(c) == \E fk \in held :
                        fk.onupdate = "CASCADE" /\ c \in Orphaned(rows, {row}, fk)
        rewritten(c) ==
            LET fk == CHOOSE fk \in held : c \in Orphaned(rows, {row}, fk)
            IN [c EXCEPT ![fk.column] = value]
    IN /\ row \in rows
       /\ keys # {}
       /\ row[column] # value
       /\ column = "id" => ~\E r \in rows : r.cls = row.cls /\ r.id = value
       /\ \A fk \in held : fk.onupdate # "CASCADE" => Orphaned(rows, {row}, fk) = {}
       /\ rows' = {IF c = row THEN moved ELSE IF follows(c) THEN rewritten(c) ELSE c :
                    c \in rows}
       /\ dbOp' = [op |-> "update"]
       /\ UNCHANGED <<tcVars, entVars, joinVars>>

NextDB ==
    \/ \E cls \in InsertClasses : \E id \in 1..MaxId : \E uuid \in 1..MaxUuid :
            \E gateway_id \in 1..MaxId : \E sensor_type_id \in 1..MaxId :
                InsertRow(cls, id, uuid, gateway_id, sensor_type_id)
    \/ \E row \in rows : \E also \in SUBSET Children(rows, row) : DeleteRow(row, also)
    \/ \E row \in rows : \E value \in 1..MaxId : UpdateKey(row, "id", value)
    \/ \E row \in rows : \E value \in 1..(MaxUuid + 1) : UpdateKey(row, "uuid", value)

SpecDB == InitDB /\ [][NextDB]_vars

----------------------------------------------------------------------------
(* Properties of the foreign keys, under SpecDB *)

\* C8: whatever rows were inserted, deleted and re-keyed, every gateway_id of
\* a User, Resource or sensor row is the id of a Gateway row and every uuid
\* of a sensor row is the uuid of a Resource row; the delete of a Gateway row
\* is never refused and leaves no row whose gateway_id is the deleted id;
\* and every foreign key declares CASCADE on delete and on update.
C8_CascadeKeepsReferences ==
    /\ \A row \in rows :
        /\ HasColumn(row.cls, "gateway_id") =>
                \E g \in rows : g.cls = "Gateway" /\ g.id = row.gateway_id
        /\ row.cls \in SensorClasses =>
                \E r \in rows : r.cls = "Resource" /\ r.uuid = row.uuid
        /\ row.cls = "Resource" =>
                \E t \in rows : t.cls = "SensorType" /\ t.id = row.sensor_type_id
    /\ (dbOp.op = "delete" /\ dbOp.cls = "Gateway") =>
            \A row \in rows :
                HasColumn(row.cls, "gateway_id") => row.gateway_id # dbOp.id
    /\ \A row \in rows : ~Refused(rows, Cascade(rows, {row}))
    /\ \A fk \in ForeignKeys : fk.ondelete = "CASCADE" /\ fk.onupdate = "CASCADE"

\* A gateway with a user, a resource and a fan on it has been deleted.
C8_Witness ==
    /\ dbOp.op = "delete"
    /\ dbOp.cls = "Gateway"
    /\ dbOp.took = {"Resource", "Fan"}
    /\ \E t \in rows : t.cls = "SensorType"

====
